---------------------------- MODULE Spec2Model ----------------------------
(***************************************************************************)
(* Model of md-to-pretty-pdf (src/src/index.js).                           *)
(*                                                                         *)
(* Three specifications share the module:                                  *)
(*   Spec       - one run of the command line program: program.action,     *)
(*                then convertMarkdownToPdf step by step, interleaved with *)
(*                the network / DOM events the page delivers;              *)
(*   FairSpec   - Spec plus the progress the event loop guarantees;        *)
(*   SpecInline - one call of processLocalImages on a bounded fragment.    *)
(* Numbers are kept in tenths (25.4 is 254) so that they stay integers.    *)
(* Strings the inliner works on are sequences of tokens.                   *)
(***************************************************************************)
EXTENDS Integers, Sequences, FiniteSets, TLC

VARIABLES
    pc,         \* position of the program
    argv,       \* the option arguments given on the command line
    options,    \* the options object handed to convertMarkdownToPdf
    calls,      \* operations invoked so far, in order
    failedAt,   \* the operation that raised, or "none"
    exitCode,   \* "running", or the exit status "0" or "1"
    browser,    \* "none", "open", "closed"
    intercepting, \* request handlers registered
    pending,    \* pendingImages
    reqState,   \* per request: "none", "inflight", "finished", "failed"
    continued,  \* per request: number of request.continue() calls
    imgState,   \* per <img>: "loading", "loaded", "broken"
    waits,      \* per <img>: "none", "listening", "resolved"
    domReady,   \* DOMContentLoaded has fired
    netIdle,    \* the networkidle0 lifecycle event has fired
    loadFired,  \* the load event has fired
    transform,  \* document.body.style.transform: NoTransform or the scale
    pdfCall,    \* arguments of the page.pdf calls made so far
    inliner,    \* a call of processLocalImages: position, html, matches
    inputPath,  \* the <inputPath> argument
    finalHtml,  \* the document generateHTML returned
    viewport    \* the argument of page.setViewport, once set

vars == <<pc, argv, options, calls, failedAt, exitCode, browser, intercepting,
          pending, reqState, continued, imgState, waits, netIdle, domReady, loadFired,
          transform, pdfCall, inliner, inputPath, finalHtml, viewport>>

-----------------------------------------------------------------------------
(* Bounds *)

\* elements (text or <img>) in a fragment given to processLocalImages
MaxItems == 3
MaxReqs == 4
MaxUrls == 2
MaxImgs == 2
\* bytes in a raster file; characters after the <svg tag, plus one
MaxLen == 3

Reqs == 1..MaxReqs
Urls == 1..MaxUrls
Imgs == 1..MaxImgs

-----------------------------------------------------------------------------
(* JavaScript numbers, in tenths *)

Num(n) == [k |-> "num", v |-> n]
NaN == [k |-> "nan", v |-> 0]
Infinity == [k |-> "inf", v |-> 0]
Undefined == [k |-> "undef", v |-> 0]

\* JavaScript truthiness of a number or undefined
Truthy(x) == x.k = "inf" \/ (x.k = "num" /\ x.v # 0)

\* parseFloat on the argument strings used here
parseFloat(s) ==
    CASE s = "0" -> Num(0)
      [] s = "0.8" -> Num(8)
      [] s = "10" -> Num(100)
      [] s = "12.7" -> Num(127)
      [] s = "14" -> Num(140)
      [] s = "-5" -> Num(-50)
      [] s = "-3" -> Num(-30)
      [] s = "Infinity" -> Infinity
      [] OTHER -> NaN

\* parseInt(value, 10) on the argument strings used here
parseInt(s) ==
    CASE s = "0" -> Num(0)
      [] s = "0.8" -> Num(0)
      [] s = "10" -> Num(100)
      [] s = "12.7" -> Num(120)
      [] s = "14" -> Num(140)
      [] s = "-5" -> Num(-50)
      [] s = "-3" -> Num(-30)
      [] OTHER -> NaN

DefaultScale == 10
DefaultFontSize == 160
DefaultMargin == 254

\* commander: the option's parser applied to the argument, or the default
ScaleOption(a) == IF a = "absent" THEN Num(DefaultScale) ELSE parseFloat(a)
FontSizeOption(a) == IF a = "absent" THEN Num(DefaultFontSize) ELSE parseInt(a)
MarginOption(a) == IF a = "absent" THEN Undefined ELSE parseFloat(a)

\* The command lines tried
Argvs ==
    { [scale |-> "absent", fontSize |-> "absent", margin |-> "absent"],
      [scale |-> "0.8", fontSize |-> "14", margin |-> "10"],
      [scale |-> "0", fontSize |-> "absent", margin |-> "absent"],
      [scale |-> "abc", fontSize |-> "absent", margin |-> "12.7"],
      [scale |-> "Infinity", fontSize |-> "absent", margin |-> "absent"],
      [scale |-> "absent", fontSize |-> "abc", margin |-> "absent"],
      [scale |-> "absent", fontSize |-> "-3", margin |-> "absent"],
      [scale |-> "absent", fontSize |-> "absent", margin |-> "0"],
      [scale |-> "absent", fontSize |-> "absent", margin |-> "-5"],
      [scale |-> "absent", fontSize |-> "absent", margin |-> "Infinity"] }

DefaultArgv == [scale |-> "absent", fontSize |-> "absent", margin |-> "absent"]

\* The <inputPath> arguments tried
DefaultInput == <<"/", "docs", "/", "doc", ".md">>

Inputs ==
    { DefaultInput,
      <<"doc", ".md">>,
      <<"/", "docs", "/", "notes", ".markdown">>,
      <<"sub", "/", "doc", ".MD">>,
      <<"README">> }

CommandLines ==
    {[opts |-> a, input |-> DefaultInput] : a \in Argvs}
    \cup {[opts |-> DefaultArgv, input |-> i] : i \in Inputs}

\* inputPath.replace(/\.md$/, ".pdf")
OutputPath(path) ==
    IF path[Len(path)] = ".md"
    THEN SubSeq(path, 1, Len(path) - 1) \o <<".pdf">>
    ELSE path

\* before page.setViewport
NoViewport == [width |-> 0, height |-> 0, deviceScaleFactor |-> 0]

AllSides(m) == [top |-> m, right |-> m, bottom |-> m, left |-> m]

\* program.action: builds the options object
ActionOptions(a) ==
    LET fs == FontSizeOption(a.fontSize)
        m == MarginOption(a.margin)
    IN [scale |-> ScaleOption(a.scale),
        fontSize |-> IF Truthy(fs) THEN fs ELSE Num(DefaultFontSize),
        margin |-> m,
        margins |-> IF Truthy(m) THEN AllSides(m)
                                 ELSE AllSides(Num(DefaultMargin))]

\* document.body.style.transform before anything sets it
NoTransform == [k |-> "none", v |-> 0]

NoOptions ==
    [scale |-> Undefined, fontSize |-> Undefined, margin |-> Undefined,
     margins |-> AllSides(Undefined)]

-----------------------------------------------------------------------------
(* Strings are sequences of tokens: markup, path parts, characters *)

Quotes == {"\"", "'"}

\* String.prototype.startsWith
StartsWith(s, t) == Len(s) >= Len(t) /\ SubSeq(s, 1, Len(t)) = t

\* String.prototype.indexOf: first position of t in s, 0 if there is none
IndexOf(s, t) ==
    LET at == {i \in 1..(Len(s) - Len(t) + 1) : SubSeq(s, i, i + Len(t) - 1) = t}
    IN IF at = {} THEN 0 ELSE CHOOSE i \in at : \A j \in at : i <= j

\* String.prototype.includes
Includes(s, t) == IndexOf(s, t) # 0

\* String.prototype.replace(string, string): the first occurrence only
Replace(s, t, by) ==
    LET i == IndexOf(s, t)
    IN IF i = 0 THEN s
       ELSE SubSeq(s, 1, i - 1) \o by \o SubSeq(s, i + Len(t), Len(s))

\* first position >= from whose token is in set, 0 if there is none
FirstIn(s, from, set) ==
    LET at == {i \in from..Len(s) : s[i] \in set}
    IN IF at = {} THEN 0 ELSE CHOOSE i \in at : \A j \in at : i <= j

\* /<img[^>]+src=["']([^"']+)["'][^>]*>/ tried at position p: the match
\* stays before the first ">", and the greedy [^>]+ takes the last src=
\* in the tag that is followed by a quoted, non-empty value; from and to
\* are the positions of the captured value
ImgMatch(s, p) ==
    LET e == FirstIn(s, p + 1, {">"})
        qs == {q \in (p + 2)..(e - 4) :
                 /\ s[q] = "src=" /\ s[q + 1] \in Quotes
                 /\ s[q + 2] \notin Quotes
                 /\ FirstIn(s, q + 2, Quotes) \in (q + 3)..(e - 1)}
    IN IF s[p] # "<img" \/ e = 0 \/ qs = {}
       THEN [found |-> FALSE, src |-> <<>>, end |-> p, from |-> 0, to |-> 0]
       ELSE LET q == CHOOSE x \in qs : \A y \in qs : y <= x
            IN [found |-> TRUE,
                src |-> SubSeq(s, q + 2, FirstIn(s, q + 2, Quotes) - 1),
                end |-> e,
                from |-> q + 2, to |-> FirstIn(s, q + 2, Quotes) - 1]

\* [...html.matchAll(imgRegex)]: the captured src of every match, in order
RECURSIVE MatchAllFrom(_, _)
MatchAllFrom(s, p) ==
    IF p > Len(s) THEN <<>>
    ELSE LET m == ImgMatch(s, p)
         IN IF m.found THEN <<m.src>> \o MatchAllFrom(s, m.end + 1)
                       ELSE MatchAllFrom(s, p + 1)

MatchAll(s) == MatchAllFrom(s, 1)

-----------------------------------------------------------------------------
(* Paths and files *)

\* the directory of the Markdown file, absolute
BasePath == <<"/", "docs">>

\* path.resolve(basePath, src): an absolute src stands, a relative one is
\* joined to basePath and normalised
Resolve(base, src) ==
    IF Head(src) = "/" THEN src
    ELSE base \o <<"/">> \o (IF Head(src) = "./" THEN Tail(src) ELSE src)

\* path.extname(p).toLowerCase()
ExtName(p) ==
    LET x == p[Len(p)]
    IN CASE x \in {".png", ".PNG"} -> ".png"
         [] x \in {".jpg", ".JPG"} -> ".jpg"
         [] x \in {".jpeg", ".JPEG"} -> ".jpeg"
         [] x \in {".gif", ".GIF"} -> ".gif"
         [] x \in {".svg", ".SVG"} -> ".svg"
         [] OTHER -> ""

\* .substring(1) of an extension
DropDot(x) ==
    CASE x = ".png" -> "png"
      [] x = ".jpg" -> "jpg"
      [] x = ".jpeg" -> "jpeg"
      [] x = ".gif" -> "gif"
      [] x = ".svg" -> "svg"
      [] OTHER -> ""

SvgText == <<"<", "s", "v", "g", ">", "<", "/", "s", "v", "g", ">">>
NotSvgText == <<"<", "p", ">", "s", "v", "g", "<", "/", "p", ">">>

\* the files under BasePath: bytes of a raster file, text of an SVG file
DocsFiles ==
    [name \in {<<"pic", ".png">>, <<"photo", ".JPG">>, <<"logo", ".svg">>,
               <<"bad", ".svg">>} |->
        CASE name = <<"pic", ".png">> -> <<137, 80, 78, 71>>
          [] name = <<"photo", ".JPG">> -> <<255, 216>>
          [] name = <<"logo", ".svg">> -> SvgText
          [] name = <<"bad", ".svg">> -> NotSvgText]

\* the files the running call sees
Files == inliner.files

FileExists(path) ==
    /\ StartsWith(path, BasePath \o <<"/">>)
    /\ SubSeq(path, Len(BasePath) + 2, Len(path)) \in DOMAIN Files

\* fs.readFile of a path that exists
ReadFileContent(path) == Files[SubSeq(path, Len(BasePath) + 2, Len(path))]

-----------------------------------------------------------------------------
(* Encodings *)

B64Chars ==
    <<"A", "B", "C", "D", "E", "F", "G", "H", "I", "J", "K", "L", "M", "N",
      "O", "P", "Q", "R", "S", "T", "U", "V", "W", "X", "Y", "Z", "a", "b",
      "c", "d", "e", "f", "g", "h", "i", "j", "k", "l", "m", "n", "o", "p",
      "q", "r", "s", "t", "u", "v", "w", "x", "y", "z", "0", "1", "2", "3",
      "4", "5", "6", "7", "8", "9", "+", "/">>

\* the alphabet of toString("base64url")
B64Url(n) ==
    CASE n = 62 -> "-"
      [] n = 63 -> "_"
      [] OTHER -> B64Chars[n + 1]

\* the character of a six-bit value
B64(n) == B64Chars[n + 1]

\* Buffer.prototype.toString("base64")
RECURSIVE Base64(_)
Base64(b) ==
    CASE Len(b) = 0 -> <<>>
      [] Len(b) = 1 ->
            <<B64(b[1] \div 4), B64((b[1] % 4) * 16), "=", "=">>
      [] Len(b) = 2 ->
            <<B64(b[1] \div 4), B64((b[1] % 4) * 16 + b[2] \div 16),
              B64((b[2] % 16) * 4), "=">>
      [] OTHER ->
            <<B64(b[1] \div 4), B64((b[1] % 4) * 16 + b[2] \div 16),
              B64((b[2] % 16) * 4 + b[3] \div 64), B64(b[3] % 64)>>
            \o Base64(SubSeq(b, 4, Len(b)))

\* the characters encodeURIComponent escapes, with the escape of their
\* UTF-8 bytes ("eacute" stands for the character U+00E9)
PercentCodes ==
    [c \in {"<", ">", "/", " ", "\"", "=", "%", "eacute"} |->
        CASE c = "<" -> <<"%", "3", "C">>
          [] c = ">" -> <<"%", "3", "E">>
          [] c = "/" -> <<"%", "2", "F">>
          [] c = " " -> <<"%", "2", "0">>
          [] c = "\"" -> <<"%", "2", "2">>
          [] c = "=" -> <<"%", "3", "D">>
          [] c = "%" -> <<"%", "2", "5">>
          [] c = "eacute" -> <<"%", "C", "3", "%", "A", "9">>]

\* encodeURIComponent of one character
EncodeChar(c) == IF c \in DOMAIN PercentCodes THEN PercentCodes[c] ELSE <<c>>

RECURSIVE EncodeURIComponent(_)
EncodeURIComponent(t) ==
    IF t = <<>> THEN <<>>
    ELSE EncodeChar(Head(t)) \o EncodeURIComponent(Tail(t))

-----------------------------------------------------------------------------
(* The resource inliner *)

\* null
Null == <<>>

\* processSVG: the text, or null when the read fails or "<svg" is missing
ProcessSVG(path) ==
    IF FileExists(path) /\ Includes(ReadFileContent(path), <<"<", "s", "v", "g">>)
    THEN ReadFileContent(path)
    ELSE Null

\* imageToDataURL
ImageToDataURL(imagePath) ==
    IF ExtName(imagePath) = ".svg"
    THEN LET svgContent == ProcessSVG(imagePath)
         IN IF svgContent # Null
            THEN <<"data:", "image/", "svg+xml", ";utf8,">>
                 \o EncodeURIComponent(svgContent)
            ELSE Null
    ELSE IF FileExists(imagePath)
         THEN LET extension == DropDot(ExtName(imagePath))
              IN <<"data:", "image/",
                   IF extension = "jpg" THEN "jpeg" ELSE extension,
                   ";base64,">>
                 \o Base64(ReadFileContent(imagePath))
         ELSE imagePath

\* the test that guards the rewriting of one match
IsLocal(src) ==
    /\ ~StartsWith(src, <<"http://">>)
    /\ ~StartsWith(src, <<"https://">>)
    /\ ~StartsWith(src, <<"data:">>)

\* the body of the for loop of processLocalImages for one match
ProcessMatch(html, src) ==
    IF IsLocal(src)
    THEN LET dataUrl == ImageToDataURL(Resolve(BasePath, src))
         IN IF dataUrl # Null THEN Replace(html, src, dataUrl) ELSE html
    ELSE html

\* the fragments tried: elements in any order
Img(attrs) == <<"<img">> \o attrs \o <<">">>
SrcAttr(src) == <<" ", "src=", "\"">> \o src \o <<"\"">>
AltAttr(alt) == <<" ", "alt=", "\"">> \o alt \o <<"\"">>

Elements ==
    { <<"<p>", "see", " ", "pic", ".png", "</p>">>,
      Img(SrcAttr(<<"pic", ".png">>)),
      Img(AltAttr(<<"pic", ".png">>) \o SrcAttr(<<"pic", ".png">>)),
      Img(SrcAttr(<<"./", "photo", ".JPG">>)),
      Img(SrcAttr(<<"logo", ".svg">>)),
      Img(SrcAttr(<<"bad", ".svg">>)),
      Img(SrcAttr(<<"gone", ".png">>)),
      Img(SrcAttr(<<"https://", "host", "/", "pic", ".png">>)),
      Img(SrcAttr(<<"data:", "image/", "png", ";base64,", "i", "V", "B", "O">>)) }

RECURSIVE Concat(_)
Concat(ss) == IF ss = <<>> THEN <<>> ELSE Head(ss) \o Concat(Tail(ss))

Fragments ==
    {Concat(es) : es \in UNION {[1..n -> Elements] : n \in 1..MaxItems}}

NoCall ==
    [pc |-> "none", html0 |-> <<>>, html |-> <<>>, images |-> <<>>, k |-> 0,
     files |-> DocsFiles, dataUrl |-> <<>>]

-----------------------------------------------------------------------------
(* The page's requests and images *)

ReqUrl(r) == 1 + (r % MaxUrls)
\* request.resourceType(): every fourth request is not an image
ResourceType(r) == IF r % 4 = 0 THEN "stylesheet" ELSE "image"
\* the request of the i-th <img>; the other requests come from the style sheets
ImgReq(i) == i
\* images that do not delay the load event (lazy or inserted late)
LateImgs == {i \in Imgs : i % 2 = 0}

ContentSet == \E n \in 1..Len(calls) : calls[n] = "setContent"
PageAlive == browser = "open" /\ exitCode = "running" /\ ContentSet
NoInflight == \A r \in Reqs : reqState[r] # "inflight"

-----------------------------------------------------------------------------
Init ==
    /\ pc = "action"
    /\ \E c \in CommandLines : argv = c.opts /\ inputPath = c.input
    /\ options = NoOptions
    /\ calls = <<>>
    /\ failedAt = "none"
    /\ exitCode = "running"
    /\ browser = "none"
    /\ intercepting = FALSE
    /\ pending = {}
    /\ reqState = [r \in Reqs |-> "none"]
    /\ continued = [r \in Reqs |-> 0]
    /\ imgState = [i \in Imgs |-> "loading"]
    /\ waits = [i \in Imgs |-> "none"]
    /\ domReady = FALSE
    /\ netIdle = FALSE
    /\ loadFired = FALSE
    /\ transform = NoTransform
    /\ pdfCall = <<>>
    /\ inliner = NoCall
    /\ finalHtml = <<>>
    /\ viewport = NoViewport

pageVars == <<pending, reqState, continued, imgState, waits, netIdle, domReady, loadFired>>

\* A catch block that swallows the error and goes on with the next stage
AwaitSwallow(at, op, next, ok) ==
    /\ pc = at
    /\ calls' = Append(calls, op)
    /\ pc' = next
    /\ failedAt' = IF ok THEN failedAt ELSE op

\* An awaited operation op runs at position at: it returns and the program
\* goes on to next, or it raises and control passes to the catch block.
Await(at, op, next, ok) ==
    /\ pc = at
    /\ calls' = Append(calls, op)
    /\ IF ok THEN pc' = next /\ failedAt' = failedAt
             ELSE pc' = "catch" /\ failedAt' = op

\* program.action
ProgramAction ==
    /\ pc = "action"
    /\ options' = ActionOptions(argv)
    /\ pc' = "readFile"
    /\ UNCHANGED <<inliner, inputPath, finalHtml, viewport, argv, calls, failedAt, exitCode, browser, intercepting,
                   pageVars, transform, pdfCall>>

\* the stages before the browser: fs.readFile, marked.parse,
\* processLocalImages, generateHTML
ReadFile ==
    /\ \E ok \in BOOLEAN : Await("readFile", "readFile", "parse", ok)
    /\ UNCHANGED <<inliner, inputPath, finalHtml, viewport, argv, options, exitCode, browser, intercepting, pageVars,
                   transform, pdfCall>>

Parse ==
    /\ \E ok \in BOOLEAN : Await("parse", "parse", "processLocalImages", ok)
    /\ UNCHANGED <<inliner, inputPath, finalHtml, viewport, argv, options, exitCode, browser, intercepting, pageVars,
                   transform, pdfCall>>

\* processLocalImages catches every per-image failure itself (see SpecInline)
ProcessLocalImagesStage ==
    /\ Await("processLocalImages", "processLocalImages", "generateHTML", TRUE)
    /\ UNCHANGED <<inliner, inputPath, finalHtml, viewport, argv, options, exitCode, browser, intercepting, pageVars,
                   transform, pdfCall>>

\* one piece of the assembled document
Tok(kind, text, num) == [kind |-> kind, text |-> text, num |-> num]
Markup(text) == Tok("markup", text, Undefined)
Css(name) == Tok("css", name, Undefined)
\* selector { font-size: <num>px; }
FontSizeRule(selector, num) == Tok("font-size", selector, num)
Fragment == Tok("fragment", "html", Undefined)

\* The template with the style sheets in the order they are read
GenerateHTMLReadOrder(o) ==
    << Markup("<!DOCTYPE html>"), Markup("<html>"), Markup("<head>"),
       Markup("<meta charset>"), Markup("<meta viewport>"),
       Markup("<style>"),
       Css("custom"), Css("github"), Css("highlight"),
       FontSizeRule(".markdown-body", o.fontSize),
       Markup("</style>"), Markup("</head>"),
       Markup("<body>"), Fragment, Markup("</body>"), Markup("</html>") >>

\* the template literal generateHTML returns
GenerateHTMLDocument(o) ==
    << Markup("<!DOCTYPE html>"), Markup("<html>"), Markup("<head>"),
       Markup("<meta charset>"), Markup("<meta viewport>"),
       Markup("<style>"),
       Css("github"), Css("highlight"), Css("custom"),
       FontSizeRule(".markdown-body", o.fontSize),
       Markup("</style>"), Markup("</head>"),
       Markup("<body>"), Fragment, Markup("</body>"), Markup("</html>") >>

GenerateHTML ==
    /\ \E ok \in BOOLEAN :
          /\ Await("generateHTML", "generateHTML", "launch", ok)
          /\ finalHtml' = IF ok THEN GenerateHTMLDocument(options) ELSE finalHtml
    /\ UNCHANGED <<inliner, inputPath, viewport, argv, options, exitCode, browser, intercepting, pageVars,
                   transform, pdfCall>>

\* puppeteer.launch
Launch ==
    /\ \E ok \in BOOLEAN :
          /\ Await("launch", "launch", "newPage", ok)
          /\ browser' = IF ok THEN "open" ELSE browser
    /\ UNCHANGED <<inliner, inputPath, finalHtml, viewport, argv, options, exitCode, intercepting, pageVars,
                   transform, pdfCall>>

NewPage ==
    /\ \E ok \in BOOLEAN : Await("newPage", "newPage", "setTimeouts", ok)
    /\ UNCHANGED <<inliner, inputPath, finalHtml, viewport, argv, options, exitCode, browser, intercepting, pageVars,
                   transform, pdfCall>>

\* setDefaultNavigationTimeout, setDefaultTimeout
SetTimeouts ==
    /\ \E ok \in BOOLEAN :
          Await("setTimeouts", "setTimeouts", "setRequestInterception", ok)
    /\ UNCHANGED <<inliner, inputPath, finalHtml, viewport, argv, options, exitCode, browser, intercepting, pageVars,
                   transform, pdfCall>>

\* setRequestInterception(true); new Set(); page.on x 3
SetRequestInterception ==
    /\ \E ok \in BOOLEAN :
          /\ Await("setRequestInterception", "setRequestInterception",
                   "setViewport", ok)
          /\ intercepting' = ok
          /\ pending' = IF ok THEN {} ELSE pending
    /\ UNCHANGED <<inliner, inputPath, finalHtml, viewport, argv, options, exitCode, browser, reqState, continued,
                   imgState, waits, netIdle, domReady, loadFired, transform, pdfCall>>

\* A4, in millimetres
A4Width == 210
A4Height == 297

\* Math.round in place of Math.floor
MmToPixelsRounded(mm) == (mm * 96 * 10 + 127) \div 254

\* (mm) => Math.floor((mm * 96) / 25.4)
MmToPixels(mm) == (mm * 96 * 10) \div 254

SetViewport ==
    /\ \E ok \in BOOLEAN :
          /\ Await("setViewport", "setViewport", "emulateMediaType", ok)
          /\ viewport' = IF ok THEN [width |-> MmToPixels(A4Width),
                                     height |-> MmToPixels(A4Height),
                                     deviceScaleFactor |-> 1]
                               ELSE viewport
    /\ UNCHANGED <<inliner, inputPath, finalHtml, argv, options, exitCode, browser, intercepting, pageVars,
                   transform, pdfCall>>

EmulateMediaType ==
    /\ \E ok \in BOOLEAN :
          Await("emulateMediaType", "emulateMediaType", "setContent", ok)
    /\ UNCHANGED <<inliner, inputPath, finalHtml, viewport, argv, options, exitCode, browser, intercepting, pageVars,
                   transform, pdfCall>>

\* page.setContent is called: the document starts loading
SetContent ==
    /\ Await("setContent", "setContent", "setContentWait", TRUE)
    /\ UNCHANGED <<inliner, inputPath, finalHtml, viewport, argv, options, exitCode, browser, intercepting, pageVars,
                   transform, pdfCall>>

\* waitUntil: ["networkidle0", "load", "domcontentloaded"] all hold
SetContentDone ==
    /\ pc = "setContentWait"
    /\ netIdle /\ loadFired /\ domReady
    /\ pc' = "evaluate"
    /\ UNCHANGED <<inliner, inputPath, finalHtml, viewport, argv, options, calls, failedAt, exitCode, browser,
                   intercepting, pageVars, transform, pdfCall>>

\* the 30 s navigation timeout expires first
SetContentTimeout ==
    /\ pc = "setContentWait"
    /\ ~(netIdle /\ loadFired /\ domReady)
    /\ pc' = "catch"
    /\ failedAt' = "setContent"
    /\ UNCHANGED <<inliner, inputPath, finalHtml, viewport, argv, options, calls, exitCode, browser, intercepting,
                   pageVars, transform, pdfCall>>

\* page.evaluate: one promise per <img>; an image that is complete with a
\* non-zero naturalWidth resolves at once, any other gets load and error
\* listeners, which only see events fired from now on
ImageWait(i) == IF imgState[i] = "loaded" THEN "resolved" ELSE "listening"

Evaluate ==
    /\ \E ok \in BOOLEAN :
          /\ Await("evaluate", "evaluate", "evaluateWait", ok)
          /\ waits' = IF ok THEN [i \in Imgs |-> ImageWait(i)] ELSE waits
    /\ UNCHANGED <<inliner, inputPath, finalHtml, viewport, argv, options, exitCode, browser, intercepting, pending,
                   reqState, continued, imgState, netIdle, domReady, loadFired,
                   transform, pdfCall>>

\* Promise.all over the per-image promises has resolved
EvaluateDone ==
    /\ pc = "evaluateWait"
    /\ \A i \in Imgs : waits[i] = "resolved"
    /\ pc' = "poll"
    /\ UNCHANGED <<inliner, inputPath, finalHtml, viewport, argv, options, calls, failedAt, exitCode, browser,
                   intercepting, pageVars, transform, pdfCall>>

\* the evaluate call is given up by the protocol (target closed, protocol
\* timeout) while a promise is still unresolved
EvaluateAbort ==
    /\ pc = "evaluateWait"
    /\ \E i \in Imgs : waits[i] # "resolved"
    /\ pc' = "catch"
    /\ failedAt' = "evaluate"
    /\ UNCHANGED <<inliner, inputPath, finalHtml, viewport, argv, options, calls, exitCode, browser, intercepting,
                   pageVars, transform, pdfCall>>

\* while (pendingImages.size > 1)
PollExitOffByOne(p) == Cardinality(p) <= 1

\* while (pendingImages.size > 0)
PollExit(p) == p = {}

\* the transform applied without the test of the scale
AfterPollAlways == "applyScale"

\* if (options.scale !== 1.0)
AfterPoll == IF options.scale # Num(DefaultScale) THEN "applyScale" ELSE "pdf"

Poll ==
    /\ pc = "poll"
    /\ pc' = IF PollExit(pending) THEN AfterPoll ELSE "sleep"
    /\ UNCHANGED <<inliner, inputPath, finalHtml, viewport, argv, options, calls, failedAt, exitCode, browser,
                   intercepting, pageVars, transform, pdfCall>>

\* setTimeout(resolve, 100) fires
Sleep ==
    /\ pc = "sleep"
    /\ pc' = "poll"
    /\ UNCHANGED <<inliner, inputPath, finalHtml, viewport, argv, options, calls, failedAt, exitCode, browser,
                   intercepting, pageVars, transform, pdfCall>>

\* page.evaluate setting document.body.style.transform
ApplyScale ==
    /\ \E ok \in BOOLEAN :
          /\ Await("applyScale", "applyScale", "pdf", ok)
          /\ transform' = IF ok THEN options.scale ELSE transform
    /\ UNCHANGED <<inliner, inputPath, finalHtml, viewport, argv, options, exitCode, browser, intercepting, pageVars,
                   pdfCall>>

\* `${n}mm`
Mm(n) == <<n, "mm">>

PdfMargin(o) ==
    [top |-> Mm(o.margins.top), right |-> Mm(o.margins.right),
     bottom |-> Mm(o.margins.bottom), left |-> Mm(o.margins.left)]

\* the options object of page.pdf
PdfOptions(path, o) ==
    [path |-> OutputPath(path), format |-> "A4", margin |-> PdfMargin(o),
     keys |-> {"path", "format", "margin", "printBackground",
               "displayHeaderFooter", "headerTemplate", "footerTemplate",
               "preferCSSPageSize"}]

\* page.pdf
Pdf ==
    /\ \E ok \in BOOLEAN : Await("pdf", "pdf", "close", ok)
    /\ pdfCall' = Append(pdfCall, PdfOptions(inputPath, options))
    /\ UNCHANGED <<inliner, inputPath, finalHtml, viewport, argv, options, exitCode, browser, intercepting, pageVars,
                   transform>>

\* browser.close, then the success messages; the process ends with status 0
Close ==
    /\ \E ok \in BOOLEAN :
          /\ Await("close", "close", "done", ok)
          /\ browser' = IF ok THEN "closed" ELSE browser
          /\ exitCode' = IF ok THEN "0" ELSE exitCode
    /\ UNCHANGED <<inliner, inputPath, finalHtml, viewport, argv, options, intercepting, pageVars, transform, pdfCall>>

\* catch (error): debugLog, console.error, process.exit(1)
Catch ==
    /\ pc = "catch"
    /\ pc' = "exit"
    /\ exitCode' = "1"
    /\ UNCHANGED <<inliner, inputPath, finalHtml, viewport, argv, options, calls, failedAt, browser,
                   intercepting, pageVars,
                   transform, pdfCall>>

-----------------------------------------------------------------------------
(* Events delivered by the page while the program awaits *)

\* page.on("request"): pendingImages.add
OnRequest(p, r) == IF ResourceType(r) = "image" THEN p \cup {ReqUrl(r)} ELSE p
\* page.on("requestfailed"): pendingImages.delete
OnRequestFailed(p, r) == IF ResourceType(r) = "image" THEN p \ {ReqUrl(r)} ELSE p
\* page.on("requestfinished"): pendingImages.delete
OnRequestFinished(p, r) == IF ResourceType(r) = "image" THEN p \ {ReqUrl(r)} ELSE p

\* request.continue() inside the if that tests the resource type
ContinueImagesOnly(c, r) ==
    IF ResourceType(r) = "image" THEN [c EXCEPT ![r] = @ + 1] ELSE c

\* page.on("request"): request.continue()
Continue(c, r) == [c EXCEPT ![r] = @ + 1]

Request(r) ==
    /\ PageAlive
    /\ reqState[r] = "none"
    /\ reqState' = [reqState EXCEPT ![r] = "inflight"]
    /\ pending' = IF intercepting THEN OnRequest(pending, r) ELSE pending
    /\ continued' = IF intercepting THEN Continue(continued, r) ELSE continued
    /\ UNCHANGED <<inliner, inputPath, finalHtml, viewport, pc, argv, options, calls, failedAt, exitCode, browser,
                   intercepting, imgState, waits, netIdle, domReady, loadFired,
                   transform, pdfCall>>

RequestFailed(r) ==
    /\ PageAlive
    /\ reqState[r] = "inflight"
    /\ reqState' = [reqState EXCEPT ![r] = "failed"]
    /\ pending' = IF intercepting THEN OnRequestFailed(pending, r) ELSE pending
    /\ UNCHANGED <<inliner, inputPath, finalHtml, viewport, pc, argv, options, calls, failedAt, exitCode, browser,
                   intercepting, continued, imgState, waits, netIdle, domReady,
                   loadFired, transform, pdfCall>>

RequestFinished(r) ==
    /\ PageAlive
    /\ reqState[r] = "inflight"
    /\ reqState' = [reqState EXCEPT ![r] = "finished"]
    /\ pending' = IF intercepting THEN OnRequestFinished(pending, r) ELSE pending
    /\ UNCHANGED <<inliner, inputPath, finalHtml, viewport, pc, argv, options, calls, failedAt, exitCode, browser,
                   intercepting, continued, imgState, waits, netIdle, domReady,
                   loadFired, transform, pdfCall>>

\* the listener added by the per-image promise: load -> resolve
OnImgLoad(w) == IF w = "listening" THEN "resolved" ELSE w
\* error -> console.warn, resolve
OnImgError(w) == IF w = "listening" THEN "resolved" ELSE w

ImgLoad(i) ==
    /\ PageAlive
    /\ imgState[i] = "loading"
    /\ reqState[ImgReq(i)] = "finished"
    /\ imgState' = [imgState EXCEPT ![i] = "loaded"]
    /\ waits' = [waits EXCEPT ![i] = OnImgLoad(@)]
    /\ UNCHANGED <<inliner, inputPath, finalHtml, viewport, pc, argv, options, calls, failedAt, exitCode, browser,
                   intercepting, pending, reqState, continued, netIdle, domReady,
                   loadFired, transform, pdfCall>>

ImgError(i) ==
    /\ PageAlive
    /\ imgState[i] = "loading"
    /\ reqState[ImgReq(i)] = "failed"
    /\ imgState' = [imgState EXCEPT ![i] = "broken"]
    /\ waits' = [waits EXCEPT ![i] = OnImgError(@)]
    /\ UNCHANGED <<inliner, inputPath, finalHtml, viewport, pc, argv, options, calls, failedAt, exitCode, browser,
                   intercepting, pending, reqState, continued, netIdle, domReady,
                   loadFired, transform, pdfCall>>

\* no network connection for 500 ms
NetworkIdle0 ==
    /\ PageAlive
    /\ ~netIdle
    /\ NoInflight
    /\ netIdle' = TRUE
    /\ UNCHANGED <<inliner, inputPath, finalHtml, viewport, pc, argv, options, calls, failedAt, exitCode, browser,
                   intercepting, pending, reqState, continued, imgState,
                   waits, domReady, loadFired, transform, pdfCall>>

DomContentLoaded ==
    /\ PageAlive
    /\ ~domReady
    /\ domReady' = TRUE
    /\ UNCHANGED <<inliner, inputPath, finalHtml, viewport, netIdle, pc, argv, options, calls, failedAt, exitCode, browser,
                   intercepting, pending, reqState, continued, imgState,
                   waits, loadFired, transform, pdfCall>>

\* the load event waits for every image that is not late
Load ==
    /\ PageAlive
    /\ domReady /\ ~loadFired
    /\ \A i \in Imgs \ LateImgs : imgState[i] # "loading"
    /\ loadFired' = TRUE
    /\ UNCHANGED <<inliner, inputPath, finalHtml, viewport, pc, argv, options, calls, failedAt, exitCode, browser,
                   intercepting, pending, reqState, continued, imgState,
                   waits, netIdle, domReady, transform, pdfCall>>

-----------------------------------------------------------------------------
Program ==
    \/ ProgramAction
    \/ ReadFile
    \/ Parse
    \/ ProcessLocalImagesStage
    \/ GenerateHTML
    \/ Launch
    \/ NewPage
    \/ SetTimeouts
    \/ SetRequestInterception
    \/ SetViewport
    \/ EmulateMediaType
    \/ SetContent
    \/ SetContentDone
    \/ SetContentTimeout
    \/ Evaluate
    \/ EvaluateDone
    \/ EvaluateAbort
    \/ Poll
    \/ Sleep
    \/ ApplyScale
    \/ Pdf
    \/ Close
    \/ Catch

Next ==
    \/ ProgramAction
    \/ ReadFile
    \/ Parse
    \/ ProcessLocalImagesStage
    \/ GenerateHTML
    \/ Launch
    \/ NewPage
    \/ SetTimeouts
    \/ SetRequestInterception
    \/ SetViewport
    \/ EmulateMediaType
    \/ SetContent
    \/ SetContentDone
    \/ SetContentTimeout
    \/ Evaluate
    \/ EvaluateDone
    \/ EvaluateAbort
    \/ Poll
    \/ Sleep
    \/ ApplyScale
    \/ Pdf
    \/ Close
    \/ Catch
    \/ \E r \in Reqs : Request(r)
    \/ \E r \in Reqs : RequestFailed(r)
    \/ \E r \in Reqs : RequestFinished(r)
    \/ \E i \in Imgs : ImgLoad(i)
    \/ \E i \in Imgs : ImgError(i)
    \/ NetworkIdle0
    \/ DomContentLoaded
    \/ Load

Spec == Init /\ [][Next]_vars

\* The event loop runs the program's next step whenever it is ready; the
\* network owes nothing.
FairSpec == Spec /\ WF_vars(Program)

Terminated == pc \in {"done", "exit"}

-----------------------------------------------------------------------------
(* Properties of the conversion *)

Invoked(op) == \E n \in 1..Len(calls) : calls[n] = op

IsPrefix(s, t) == Len(s) <= Len(t) /\ s = SubSeq(t, 1, Len(s))

\* the operations of convertMarkdownToPdf in program order
Stages(scale) ==
    <<"readFile", "parse", "processLocalImages", "generateHTML", "launch",
      "newPage", "setTimeouts", "setRequestInterception", "setViewport",
      "emulateMediaType", "setContent", "evaluate">>
    \o (IF scale # Num(DefaultScale) THEN <<"applyScale">> ELSE <<>>)
    \o <<"pdf", "close">>

\* C1: once the browser has been launched, every terminal state of the
\* conversion (success or error exit) has the browser closed.
C1_BrowserClosedOnEveryExit == Terminated => browser # "open"

\* C2: the load-completion protocol runs in order and gates page.pdf:
\* setContent completes only with network idle, load and DOM ready; the
\* per-image wait starts only after that and completes only with every
\* promise resolved; the poll loop starts only after that and exits only
\* with the pending set empty; page.pdf comes only after the poll loop.
C2_Step ==
    /\ (pc = "setContentWait" /\ pc' = "evaluate")
          => (netIdle /\ loadFired /\ domReady)
    /\ (pc # "evaluate" /\ pc' = "evaluate") => pc = "setContentWait"
    /\ (pc = "evaluateWait" /\ pc' = "poll")
          => \A i \in Imgs : waits[i] = "resolved"
    /\ (pc # "poll" /\ pc' = "poll") => pc \in {"evaluateWait", "sleep"}
    /\ (pc # "sleep" /\ pc' = "sleep") => pc = "poll"
    /\ (pc = "poll" /\ pc' \in {"applyScale", "pdf"}) => pending = {}
    /\ (pc # "applyScale" /\ pc' = "applyScale") => pc = "poll"
    /\ (pc # "pdf" /\ pc' = "pdf") => pc \in {"poll", "applyScale"}
    /\ (~Invoked("pdf") /\ Invoked("pdf")') => pc = "pdf"

C2_LoadProtocolInOrder == [][C2_Step]_vars

\* a conversion that reached page.pdf after the page issued requests and an
\* image settled after the load event
C2_Witness ==
    /\ Invoked("pdf")
    /\ \E r \in Reqs : reqState[r] = "failed"
    /\ \E i \in LateImgs : imgState[i] = "loaded"

\* C3: a conversion never hangs: whatever the network does, it eventually
\* reaches successful PDF emission or the error exit.
C3_NeverHangs == <>Terminated

\* C4: fail-stop, single attempt: the operations run in program order, each
\* at most once; after one raises nothing further runs, page.pdf is not
\* invoked by a later step, a failed input read leaves the browser
\* unlaunched, and the process ends with exit status 1.
C4_Inv ==
    /\ IsPrefix(calls, Stages(options.scale))
    /\ failedAt # "none" =>
          /\ pc \in {"catch", "exit"}
          /\ calls # <<>> /\ calls[Len(calls)] = failedAt
    /\ failedAt \notin {"none", "pdf", "close"} => pdfCall = <<>>
    /\ failedAt \in {"readFile", "parse", "generateHTML"} => browser = "none"
    /\ pc = "exit" => (exitCode = "1" /\ failedAt # "none")
    /\ exitCode = "1" => pc = "exit"
    /\ exitCode = "0" => (pc = "done" /\ failedAt = "none")

C4_Step ==
    /\ pc \in {"catch", "exit"} => (calls' = calls /\ pc' \in {"catch", "exit"})
    /\ pc = "exit" => pc' = "exit"

C4_FailStopSingleAttempt == []C4_Inv /\ [][C4_Step]_vars

\* the process has exited with status 1 after a stage in the middle raised
C4_Witness == pc = "exit" /\ exitCode = "1" /\ failedAt = "setContent"

\* C5: an image whose load ended in an error event never keeps the
\* per-image wait from resolving.
C5_BrokenImageWaitResolves ==
    pc = "evaluateWait" =>
        \A i \in Imgs : imgState[i] = "broken" => waits[i] = "resolved"

\* validation contract of the options, on the values the parsers returned
ValidScale(x) == x.k = "num" /\ x.v > 0
ValidFontSize(x) == x.k = "num" /\ x.v > 0
ValidMargin(x) == x.k = "undef" \/ (x.k = "num" /\ x.v >= 0)

ValidArgv(a) ==
    /\ ValidScale(ScaleOption(a.scale))
    /\ ValidFontSize(FontSizeOption(a.fontSize))
    /\ ValidMargin(MarginOption(a.margin))

\* C9: with an invalid scale, font size or margin the program exits non-zero
\* before any work; a conversion starts only with valid values.
C9_ValidationBeforeWork ==
    pc # "action" =>
        \/ ValidArgv(argv)
        \/ (pc = "exit" /\ exitCode = "1" /\ calls = <<>>)

\* C10: page.pdf receives N mm on all four sides for every non-negative
\* --margin N, and 25.4 mm on all four sides when --margin is absent.
C10_MarginsVerbatim ==
    \A n \in 1..Len(pdfCall) :
        LET m == MarginOption(argv.margin) IN
        /\ (m.k = "num" /\ m.v >= 0)
              => pdfCall[n].margin = AllSides(Mm(m))
        /\ argv.margin = "absent"
              => pdfCall[n].margin = AllSides(Mm(Num(DefaultMargin)))

-----------------------------------------------------------------------------
(* processLocalImages on its own: SpecInline *)

InitInline ==
    /\ pc = "processLocalImages"
    /\ argv = DefaultArgv
    /\ inputPath = DefaultInput
    /\ finalHtml = <<>>
    /\ viewport = NoViewport
    /\ options = ActionOptions(argv)
    /\ calls = <<"readFile", "parse">>
    /\ failedAt = "none"
    /\ exitCode = "running"
    /\ browser = "none"
    /\ intercepting = FALSE
    /\ pending = {}
    /\ reqState = [r \in Reqs |-> "none"]
    /\ continued = [r \in Reqs |-> 0]
    /\ imgState = [i \in Imgs |-> "loading"]
    /\ waits = [i \in Imgs |-> "none"]
    /\ domReady = FALSE
    /\ netIdle = FALSE
    /\ loadFired = FALSE
    /\ transform = NoTransform
    /\ pdfCall = <<>>
    /\ \E f \in Fragments :
          inliner = [pc |-> "matchAll", html0 |-> f, html |-> f,
                     images |-> <<>>, k |-> 0, files |-> DocsFiles,
                     dataUrl |-> <<>>]

pipelineVars ==
    <<pc, argv, options, calls, failedAt, exitCode, browser, intercepting,
      pending, reqState, continued, imgState, waits, netIdle, domReady, loadFired,
      transform, pdfCall, inputPath, finalHtml, viewport>>

\* const images = [...html.matchAll(imgRegex)]
InlineMatchAll ==
    /\ inliner.pc = "matchAll"
    /\ inliner' = [inliner EXCEPT !.pc = "loop",
                                  !.images = MatchAll(inliner.html), !.k = 1]
    /\ UNCHANGED pipelineVars

\* one iteration of for (const match of images)
InlineMatch ==
    /\ inliner.pc = "loop"
    /\ inliner.k <= Len(inliner.images)
    /\ inliner' = [inliner EXCEPT
                     !.html = ProcessMatch(inliner.html, inliner.images[inliner.k]),
                     !.k = @ + 1]
    /\ UNCHANGED pipelineVars

\* return html
InlineReturn ==
    /\ inliner.pc = "loop"
    /\ inliner.k > Len(inliner.images)
    /\ inliner' = [inliner EXCEPT !.pc = "returned"]
    /\ UNCHANGED pipelineVars

NextInline ==
    \/ InlineMatchAll
    \/ InlineMatch
    \/ InlineReturn

SpecInline == InitInline /\ [][NextInline]_vars

-----------------------------------------------------------------------------
(* Properties of processLocalImages *)

Returned == inliner.pc = "returned"
\* the src of every <img> of the input, and of the returned fragment
SrcIn == MatchAll(inliner.html0)
SrcOut == MatchAll(inliner.html)

\* the data URL of the file a local src names, when it can be read and is valid
Inlinable(src) ==
    StartsWith(ImageToDataURL(Resolve(BasePath, src)), <<"data:">>)
DataUrlOf(src) == ImageToDataURL(Resolve(BasePath, src))

\* C6: every <img> whose src starts with http://, https:// or data: has the
\* same src in the returned fragment.
C6_RemoteAndDataNeverRewritten ==
    Returned =>
        /\ Len(SrcOut) = Len(SrcIn)
        /\ \A n \in 1..Len(SrcIn) : ~IsLocal(SrcIn[n]) => SrcOut[n] = SrcIn[n]

\* C7: every <img> with a local src whose file can be read has the data URL
\* of that file as its src in the returned fragment.
C7_EveryLocalImageRewritten ==
    Returned =>
        \A n \in 1..Len(SrcIn) :
            (IsLocal(SrcIn[n]) /\ Inlinable(SrcIn[n]))
                => (n <= Len(SrcOut) /\ SrcOut[n] = DataUrlOf(SrcIn[n]))

\* C8: when a local image cannot be read or validated, the call still
\* returns, that image keeps the src it had in the input, and every other
\* local image is inlined.
C8_FailedImageLeftAlone ==
    (Returned /\ \E n \in 1..Len(SrcIn) :
                    IsLocal(SrcIn[n]) /\ ~Inlinable(SrcIn[n]))
    => /\ Len(SrcOut) = Len(SrcIn)
       /\ \A n \in 1..Len(SrcIn) :
            IsLocal(SrcIn[n]) =>
                SrcOut[n] = IF Inlinable(SrcIn[n]) THEN DataUrlOf(SrcIn[n])
                                                   ELSE SrcIn[n]

\* the fragment with the src value of the n-th <img> blanked where mask[n]
RECURSIVE BlankSrc(_, _, _, _)
BlankSrc(s, p, n, mask) ==
    IF p > Len(s) THEN <<>>
    ELSE LET m == ImgMatch(s, p)
         IN IF m.found
            THEN (IF n <= Len(mask) /\ mask[n]
                  THEN SubSeq(s, p, m.from - 1) \o <<"[src]">>
                       \o SubSeq(s, m.to + 1, m.end)
                  ELSE SubSeq(s, p, m.end))
                 \o BlankSrc(s, m.end + 1, n + 1, mask)
            ELSE <<s[p]>> \o BlankSrc(s, p + 1, n, mask)

\* which <img> elements of the input have a local src
LocalMask == [n \in 1..Len(SrcIn) |-> IsLocal(SrcIn[n])]

\* C19: processLocalImages changes nothing except the src values of local
\* <img> elements: outside the src value of an <img> whose src is neither
\* http(s) nor data the returned fragment is identical to the input; text,
\* other attributes and other elements holding the same string are unchanged.
C19_OnlyLocalSrcChanged ==
    Returned =>
        BlankSrc(inliner.html, 1, 1, LocalMask)
            = BlankSrc(inliner.html0, 1, 1, LocalMask)

-----------------------------------------------------------------------------
(* The output path *)

\* the extensions an input path may end in
MarkdownExtensions == {".md", ".markdown", ".MD"}

\* the path without its extension: directory and base name
Stem(path) ==
    IF path[Len(path)] \in MarkdownExtensions THEN SubSeq(path, 1, Len(path) - 1)
                                      ELSE path

\* C11: the PDF is written to exactly one path, in the input's directory,
\* with the input's base name and a .pdf extension, never the input path
\* itself, and depending on the input path only.
C11_OutputIsSiblingPdf ==
    /\ Len(pdfCall) <= 1
    /\ \A n \in 1..Len(pdfCall) :
          /\ pdfCall[n].path = Stem(inputPath) \o <<".pdf">>
          /\ pdfCall[n].path # inputPath

-----------------------------------------------------------------------------
(* The assembled document *)

\* the heading multipliers, in hundredths
HeadingFactor ==
    [h1 |-> 200, h2 |-> 150, h3 |-> 125, h4 |-> 110, h5 |-> 100, h6 |-> 90]

\* the document holds a font-size rule for the selector satisfying P
HasFontSizeRule(doc, selector, P(_)) ==
    \E n \in 1..Len(doc) :
        /\ doc[n].kind = "font-size"
        /\ doc[n].text = selector
        /\ doc[n].num.k = "num"
        /\ P(doc[n].num.v)

\* C12: for every positive font size F the style block sets the content
\* container to F px and overrides h1=2F, h2=1.5F, h3=1.25F, h4=1.1F, h5=F,
\* h6=0.9F and code/pre=floor(0.9F) px.
C12_FontSizeOverrides ==
    (finalHtml # <<>> /\ options.fontSize.k = "num" /\ options.fontSize.v > 0)
    => LET F == options.fontSize.v IN
       /\ HasFontSizeRule(finalHtml, ".markdown-body", LAMBDA v : v = F)
       /\ \A h \in DOMAIN HeadingFactor :
             HasFontSizeRule(finalHtml, h,
                             LAMBDA v : v * 100 = F * HeadingFactor[h])
       /\ HasFontSizeRule(finalHtml, "code",
                          LAMBDA v : v = ((F * 9) \div 100) * 10)

\* the positions of a piece in the document
PositionsOf(doc, t) == {n \in 1..Len(doc) : doc[n] = t}
PositionOf(doc, t) == CHOOSE n \in PositionsOf(doc, t) : TRUE

\* C13: the single style block holds the GitHub markdown CSS, then the
\* highlight.js theme CSS, then the custom layout/print CSS, then the
\* computed font-size override, in exactly this order; the fragment appears
\* once, in the body, after the style block.
C13_StyleOrder ==
    finalHtml # <<>> =>
        /\ \A t \in {Markup("<style>"), Markup("</style>"), Markup("<body>"),
                      Fragment, Markup("</body>")} :
              Cardinality(PositionsOf(finalHtml, t)) = 1
        /\ LET s == PositionOf(finalHtml, Markup("<style>"))
               e == PositionOf(finalHtml, Markup("</style>"))
               b == PositionOf(finalHtml, Markup("<body>"))
               f == PositionOf(finalHtml, Fragment)
               c == PositionOf(finalHtml, Markup("</body>"))
           IN /\ SubSeq(finalHtml, s + 1, e - 1)
                    = << Css("github"), Css("highlight"), Css("custom"),
                         FontSizeRule(".markdown-body", options.fontSize) >>
              /\ \A n \in 1..Len(finalHtml) :
                    finalHtml[n].kind \in {"css", "font-size"}
                        => s < n /\ n < e
              /\ e < b /\ b < f /\ f < c

\* a document assembled with a font size given on the command line, handed
\* on to the browser
C13_Witness ==
    /\ finalHtml # <<>>
    /\ options.fontSize = Num(140)
    /\ Invoked("setContent")

-----------------------------------------------------------------------------
(* imageToDataURL on its own: SpecEncode *)

SeqsUpTo(S, n) == UNION {[1..m -> S] : m \in 0..n}

\* file contents: bytes of a raster file, characters of an SVG file
Bytes == {0, 77, 137, 255}
ByteContents == SeqsUpTo(Bytes, MaxLen)
TextChars == {"<", ">", "/", "%", "2", "F", "eacute"}
SvgTag == <<"<", "s", "v", "g">>
TextContents ==
    {a \o SvgTag \o b : a \in SeqsUpTo(TextChars, 1),
                        b \in SeqsUpTo(TextChars, MaxLen - 1)}
    \cup SeqsUpTo(TextChars, MaxLen - 1)

RasterExtensions == {".png", ".PNG", ".jpg", ".JPG", ".jpeg", ".gif"}
SvgExtensions == {".svg", ".SVG"}

\* the image files tried, one at a time
ImageFiles ==
    {[name |-> <<"img", e>>, content |-> c] :
        e \in RasterExtensions, c \in ByteContents}
    \cup {[name |-> <<"img", e>>, content |-> c] :
        e \in SvgExtensions, c \in TextContents}

InitEncode ==
    /\ pc = "processLocalImages"
    /\ argv = DefaultArgv
    /\ inputPath = DefaultInput
    /\ finalHtml = <<>>
    /\ viewport = NoViewport
    /\ options = ActionOptions(argv)
    /\ calls = <<"readFile", "parse">>
    /\ failedAt = "none"
    /\ exitCode = "running"
    /\ browser = "none"
    /\ intercepting = FALSE
    /\ pending = {}
    /\ reqState = [r \in Reqs |-> "none"]
    /\ continued = [r \in Reqs |-> 0]
    /\ imgState = [i \in Imgs |-> "loading"]
    /\ waits = [i \in Imgs |-> "none"]
    /\ domReady = FALSE
    /\ netIdle = FALSE
    /\ loadFired = FALSE
    /\ transform = NoTransform
    /\ pdfCall = <<>>
    /\ \E f \in ImageFiles, readable \in BOOLEAN :
          inliner = [pc |-> "imageToDataURL", html0 |-> <<>>, html |-> <<>>,
                     images |-> <<f.name>>, k |-> 1,
                     files |-> IF readable THEN f.name :> f.content ELSE <<>>,
                     dataUrl |-> <<>>]

\* const dataUrl = await imageToDataURL(absolutePath)
EncodeImage ==
    /\ inliner.pc = "imageToDataURL"
    /\ inliner' =
          [inliner EXCEPT
              !.pc = "encoded",
              !.dataUrl = ImageToDataURL(
                              Resolve(BasePath, inliner.images[inliner.k]))]
    /\ UNCHANGED pipelineVars

NextEncode == EncodeImage

SpecEncode == InitEncode /\ [][NextEncode]_vars

\* the value of a base64 character, -1 for any other character
B64Index(c) ==
    IF \E n \in 1..64 : B64Chars[n] = c
    THEN (CHOOSE n \in 1..64 : B64Chars[n] = c) - 1
    ELSE -1

\* base64 decoding (RFC 4648); <<-1>> marks text that is not base64
RECURSIVE Base64Decode(_)
Base64Decode(s) ==
    IF s = <<>> THEN <<>>
    ELSE IF Len(s) < 4 THEN <<-1>>
    ELSE LET i1 == B64Index(s[1])
             i2 == B64Index(s[2])
             i3 == B64Index(s[3])
             i4 == B64Index(s[4])
             b1 == i1 * 4 + i2 \div 16
             b2 == (i2 % 16) * 16 + i3 \div 4
             b3 == (i3 % 4) * 64 + i4
         IN CASE i1 < 0 \/ i2 < 0 -> <<-1>>
              [] i1 >= 0 /\ i2 >= 0 /\ s[3] = "=" ->
                    IF s[4] = "=" /\ Len(s) = 4 THEN <<b1>> ELSE <<-1>>
              [] i1 >= 0 /\ i2 >= 0 /\ s[3] # "=" /\ s[4] = "=" ->
                    IF i3 >= 0 /\ Len(s) = 4 THEN <<b1, b2>> ELSE <<-1>>
              [] OTHER ->
                    IF i3 < 0 \/ i4 < 0 THEN <<-1>>
                    ELSE <<b1, b2, b3>> \o Base64Decode(SubSeq(s, 5, Len(s)))

\* decodeURIComponent; <<"URIError">> marks a malformed escape
RECURSIVE DecodeURIComponent(_)
DecodeURIComponent(s) ==
    IF s = <<>> THEN <<>>
    ELSE IF Head(s) # "%" THEN <<Head(s)>> \o DecodeURIComponent(Tail(s))
    ELSE LET cs == {c \in DOMAIN PercentCodes : StartsWith(s, PercentCodes[c])}
         IN IF cs = {} THEN <<"URIError">>
            ELSE LET c == CHOOSE x \in cs : TRUE
                 IN <<c>> \o DecodeURIComponent(
                                 SubSeq(s, Len(PercentCodes[c]) + 1, Len(s)))

\* C14: the data URL of a readable file is determined by the lower-cased
\* extension: .svg with an <svg tag gives data:image/svg+xml;utf8, followed
\* by the percent-encoded text, never base64, and percent-decoding gives the
\* text back; .jpg gives data:image/jpeg;base64,<B>; any other extension e
\* gives data:image/e;base64,<B>; decoding <B> gives the file bytes back.
C14_DataUrlByExtension ==
    (inliner.pc = "encoded" /\ inliner.files # <<>>) =>
        LET name == inliner.images[inliner.k]
            content == inliner.files[name]
            url == inliner.dataUrl
            ext == ExtName(name)
            payload == SubSeq(url, 5, Len(url))
        IN IF ext = ".svg"
           THEN Includes(content, SvgTag) =>
                   /\ Len(url) >= 4
                   /\ SubSeq(url, 1, 4)
                         = <<"data:", "image/", "svg+xml", ";utf8,">>
                   /\ ~Includes(url, <<";base64,">>)
                   /\ \A i \in 1..Len(payload) :
                         payload[i] \notin DOMAIN PercentCodes \ {"%"}
                   /\ DecodeURIComponent(payload) = content
           ELSE /\ Len(url) >= 4
                /\ SubSeq(url, 1, 4)
                      = <<"data:", "image/",
                          IF ext = ".jpg" THEN "jpeg" ELSE DropDot(ext),
                          ";base64,">>
                /\ Base64Decode(payload) = content

\* a two-byte .JPG file has been encoded, with padding
C14_Witness ==
    /\ inliner.pc = "encoded"
    /\ inliner.files = (<<"img", ".JPG">> :> <<255, 137>>)
    /\ inliner.dataUrl
          = <<"data:", "image/", "jpeg", ";base64,", "/", "4", "k", "=">>

-----------------------------------------------------------------------------
(* Viewport and scale *)

C16_ScaleIsBodyTransform ==
    /\ transform # NoTransform =>
          /\ options.scale # Num(DefaultScale)
          /\ transform = options.scale
          /\ Invoked("applyScale")
    /\ Invoked("applyScale") =>
          /\ Invoked("evaluate")
          /\ \A i \in Imgs : waits[i] = "resolved"
    /\ \A n \in 1..Len(calls) :
          calls[n] = "pdf" =>
              IF options.scale # Num(DefaultScale)
              THEN n > 1 /\ calls[n - 1] = "applyScale"
                   /\ transform = options.scale
              ELSE transform = NoTransform /\ ~Invoked("applyScale")
    /\ \A n \in 1..Len(pdfCall) : "scale" \notin pdfCall[n].keys

\* page.pdf has been invoked on a page scaled to 0.8
C16_Witness ==
    /\ Invoked("pdf")
    /\ pdfCall # <<>>
    /\ transform = Num(8)

-----------------------------------------------------------------------------
(* The pending image set *)

\* an image request has been issued and neither finished nor failed yet
ImageRequestInFlight ==
    \E r \in Reqs : ResourceType(r) = "image" /\ reqState[r] = "inflight"

\* C17: the pending image set tracks exactly the in-flight image requests:
\* under every interleaving of the request, requestfinished and requestfailed
\* callbacks the set is empty if and only if no issued image request still
\* awaits its finished or failed event, so the poll loop never exits while an
\* image request is in flight.
C17_PendingTracksInFlight ==
    intercepting => (pending = {} <=> ~ImageRequestInFlight)

\* C18: interception is set up before any content is loaded and never stalls
\* a request: the pending set is created empty and the handlers are
\* registered before page.setContent is invoked, so no image request is
\* issued untracked; every intercepted request, of any resource type, is
\* continued exactly once.
C18_InterceptionBeforeContent ==
    /\ Invoked("setContent") => intercepting
    /\ (intercepting /\ ~Invoked("setContent")) =>
          /\ pending = {}
          /\ \A r \in Reqs : reqState[r] = "none"
    /\ \A r \in Reqs :
          continued[r] = IF reqState[r] = "none" THEN 0 ELSE 1
    /\ \A r \in Reqs :
          (/\ ResourceType(r) = "image"
           /\ reqState[r] = "inflight"
           /\ \A q \in Reqs \ {r} :
                 ReqUrl(q) = ReqUrl(r) => reqState[q] \in {"none", "inflight"})
          => ReqUrl(r) \in pending

\* a request that is not an image has been issued and continued while an
\* image request is tracked
C18_Witness ==
    /\ \E r \in Reqs :
          /\ ResourceType(r) # "image"
          /\ reqState[r] # "none"
          /\ continued[r] = 1
    /\ ImageRequestInFlight
    /\ pending # {}

====
